---- MODULE Spec2Model ----
(***************************************************************************)
(* Model of style_guide_gen:                                               *)
(*   - crew_flow/flow.py   TitleStyleFlow, the event-driven                *)
(*                         draft / validate / revise loop                  *)
(*   - knowledge/db_knowledge.py  the tiered knowledge sources             *)
(***************************************************************************)
EXTENDS Integers, Sequences, FiniteSets, TLC

\* ------------------------------------------------------------------------
\* Bounds of the model
\* ------------------------------------------------------------------------
\* largest max_iterations a run is constructed with
MaxCap == 2
\* validator invocations counted beyond the cap before the counter saturates
ExtraValidations == 2
\* largest number of rows in a knowledge table
MaxRows == 3
\* largest number of add() calls made on the knowledge sources
MaxAdds == 2
\* largest number of generate_style_guide requests served
MaxRuns == 2

MaxValidatorCalls == MaxCap + ExtraValidations

\* ------------------------------------------------------------------------
\* Python values
\* ------------------------------------------------------------------------
\* None where a dict is expected (state['draft'], state['pending'], ...)
None == [py_none |-> TRUE]
\* a JSON value that parses but is not an object (it has no .get)
NotADict == [py_list |-> TRUE]
\* None / SQL NULL where a str is expected
NULL == "<NULL>"

\* a str where a method's result is kept
Str(text) == [py_str |-> text]

IsDict(d) == d # None /\ d # NotADict /\ "py_str" \notin DOMAIN d

\* dict.get(key, default)
Get(d, key, default) == IF key \in DOMAIN d THEN d[key] ELSE default

\* variant of OrEmpty: the value is passed on as it is
OrEmpty_AsIs(x) == x

\* `x or ""` on an Optional[str]
OrEmpty(x) == IF x = NULL \/ x = "" THEN "" ELSE x

\* the critique a validator answer carries: its feedback list, [] by default
\* (Pending_Title_Guide.feedback has default_factory=list)
Critique(d) == Get(d, "feedback", <<>>)

\* variant of HasFeedback: tests for the key instead of the list's truth
HasFeedback_KeyPresent(p) == "feedback" \in DOMAIN p

\* bool(pending.get("feedback")): a missing key and [] are both falsy
HasFeedback(p) == "feedback" \in DOMAIN p /\ p["feedback"] # <<>>

\* the dicts obtained from the records in fulls by dropping any of their keys
Restrict(full, ks) == [k \in ks |-> full[k]]

Dicts(fulls) ==
  UNION { { Restrict(full, ks) : ks \in SUBSET DOMAIN full } : full \in fulls }

\* ------------------------------------------------------------------------
\* The run's inputs and what the two agents may answer
\* ------------------------------------------------------------------------
Categories == {"Fashion"}
ProductTypes == {"Dresses"}
\* the category an agent may name in place of the run's
OtherCategories == {"Toys"}
DraftTexts == {"d1", "d2"}
RewrittenTexts == {"p1"}
FeedbackLists == {<<>>, <<"f1">>, <<"f2", "f1">>}

\* an agent call raises, returns text json.loads rejects, or returns JSON
Raises == [kind |-> "raise"]
Unparseable == [kind |-> "unparseable"]
Json(v) == [kind |-> "json", value |-> v]

WriterDicts ==
  Dicts([category : Categories \cup OtherCategories,
         product_type : ProductTypes, draft_text : DraftTexts])

\* an agent backed by the LLM: nothing is known of its answers
LLMAgent == [scripted |-> FALSE]

\* an agent object whose execute() is a function of its input, as
\* MockWriter and MockValidator are
Scripted(answers) == [scripted |-> TRUE, answers |-> answers]

WriterOutcomes ==
  {Raises, Unparseable, Json(NotADict)} \cup { Json(d) : d \in WriterDicts }

\* the validator sees draft_text and may echo it, rewrite it or drop it
ValidatorDicts(input) ==
  Dicts([category : {input.category},
         product_type : {input.product_type},
         pending_text : {input.draft_text} \cup RewrittenTexts,
         feedback : FeedbackLists])

ValidatorOutcomes(input) ==
  {Raises, Unparseable, Json(NotADict)}
    \cup { Json(d) : d \in ValidatorDicts(input) }

\* writers whose answer depends on whether they are given feedback
ScriptedWriters ==
  { Scripted(f) :
      f \in [ {<<>>, <<"f1">>} ->
                {Raises} \cup { Json([draft_text |-> t]) : t \in DraftTexts } ] }

\* validators that accept, reject or fail according to the draft_text
ScriptedValidators ==
  { Scripted(f) : f \in [ DraftTexts \cup {""} -> {"accept", "reject", "raise"} ] }

\* the answer of a scripted validator to an input: like MockValidator it
\* echoes category, product_type and the text, with feedback when rejecting
Verdict(v, input) ==
  IF v = "raise" THEN Raises
  ELSE Json([category |-> input.category,
             product_type |-> input.product_type,
             pending_text |-> input.draft_text,
             feedback |-> IF v = "accept" THEN <<>> ELSE <<"f1">>])

\* ------------------------------------------------------------------------
\* State
\* ------------------------------------------------------------------------
VARIABLES
  state,            \* TitleStyleFlow.state
  status,           \* "new" | "running" | "done" | "failed"
  trigger,          \* the method name or router label being dispatched
  arg,              \* result of the method that finished last
  executed,         \* names of the flow methods that have run
  writer_calls,     \* title_writer.execute invocations
  validator_calls,  \* title_validator.execute invocations (saturating)
  writer_input,     \* input of the latest writer invocation
  validator_input,  \* input of the latest validator invocation
  verdicts,         \* per validator answer: TRUE iff it carried feedback
  last_outcome,     \* kind of the latest agent answer, "" before any
  baseline_style_guidelines,  \* rows of the SQLite table of that name
  legal_guidelines,           \* rows of the SQLite table of that name
  loaded,           \* the knowledge source asked last and what it returned
  engine,           \* TitleStyleFlow.engine
  run_result,       \* what TitleStyleGuideCrew.run returned, if it has
  title_writer,     \* TitleStyleFlow.title_writer
  title_validator,  \* TitleStyleFlow.title_validator
  mock,             \* a MockTitleStyleFlow built beside the flow, if any
  other,            \* the attributes of a second run's objects while the
                    \* first run's thread executes, None when there is one run
  running,          \* the run (1 or 2) whose thread is executing
  db_lock,          \* the run holding SQLite's write lock on db_path, 0 if none
  txn,              \* store_final_guide's open connection: the next guide
                    \* key and the rows inserted and not yet committed
  chunks,           \* per knowledge source (by content key): self.chunks
  add_calls,        \* per knowledge source: add() calls made on it
  request,          \* the StyleGuideRequest being served, None when idle
  inputs,           \* StyleGuideCrew.inputs
  crew_sources,     \* what crew() built the two knowledge sources with
  phase,            \* position of generate_style_guide
  task_outputs,     \* outputs of the tasks completed in this run, in order
  task_context,     \* the context each completed task was given
  failed_task,      \* position of the task that raised in this run, 0 if none
  hooks,            \* kickoff hooks executed in this run
  published_style_guides,  \* the table, in insertion order
  rows_before,      \* number of rows in the table when the run began
  response,         \* what the caller of generate_style_guide got
  runs              \* requests served so far

flow_vars == <<state, status, trigger, arg, executed, writer_calls,
               validator_calls, writer_input, validator_input, verdicts,
               last_outcome, engine, run_result, title_writer,
               title_validator>>

knowledge_vars == <<baseline_style_guidelines, legal_guidelines, loaded,
                    chunks, add_calls>>

crew_vars == <<request, inputs, crew_sources, phase, task_outputs,
               task_context, failed_task, hooks, published_style_guides,
               rows_before, response, runs>>

\* what exists only in some of the settings the programs are studied in
aux_vars == <<mock, other, running, db_lock, txn>>

vars == <<flow_vars, knowledge_vars, crew_vars, aux_vars>>

\* ------------------------------------------------------------------------
\* fetch_generic_title_guidelines
\* ------------------------------------------------------------------------
\* {} where a dict is expected
EmptyDict == [k \in {} |-> ""]

\* run() has not returned
NotReturned == [py_unset |-> TRUE]

\* no StyleGuideCrew exists and the API is not serving
NoCrew ==
  /\ request = None
  /\ inputs = EmptyDict
  /\ crew_sources = None
  /\ phase = "off"
  /\ task_outputs = <<>>
  /\ task_context = <<>>
  /\ failed_task = 0
  /\ hooks = {}
  /\ published_style_guides = <<>>
  /\ rows_before = 0
  /\ response = None
  /\ runs = 0

\* an engine is None or a connection to a GenericTitleGuides table, given
\* here by the guidelines column of the rows matching (category, product_type)
Engines == {None, [rows |-> {}], [rows |-> {"g1"}], [rows |-> {NULL}]}

fetch_generic_title_guidelines(eng) ==
  IF eng = None THEN {NULL}
  ELSE IF eng.rows = {} THEN {NULL}
  ELSE eng.rows

\* ------------------------------------------------------------------------
\* TitleStyleFlow
\* ------------------------------------------------------------------------
\* the engines the runs of the draft / validate / revise loop are built with
FlowEngines == {None, [rows |-> {"g1"}]}

\* TitleStyleFlow.__init__ with azure_conn_str naming one of the engines
InitFlowOf(engines, categories, writers, validators) ==
  /\ engine \in engines
  /\ title_writer \in writers
  /\ title_validator \in validators
  /\ \E category \in categories, product_type \in ProductTypes,
        max_iterations \in 0..MaxCap :
       \E guidelines \in fetch_generic_title_guidelines(engine) :
         state = [category |-> category,
                  product_type |-> product_type,
                  iteration |-> 0,
                  max_iterations |-> max_iterations,
                  feedback |-> <<>>,
                  draft |-> None,
                  pending |-> None,
                  final_guide |-> None,
                  guidelines |-> OrEmpty(guidelines)]
  /\ status = "new"
  /\ trigger = "kickoff"
  /\ arg = None
  /\ executed = {}
  /\ writer_calls = 0
  /\ validator_calls = 0
  /\ writer_input = None
  /\ validator_input = None
  /\ verdicts = <<>>
  /\ last_outcome = ""
  /\ run_result = NotReturned
  /\ NoCrew

\* a single run, no connection open on the published guides
Solo ==
  /\ other = None
  /\ running = 1
  /\ db_lock = 0
  /\ txn = None

\* a single run and no mock beside it
Alone == mock = None /\ Solo

\* the flow with its LLM agents, built with one of the engines
InitFlowWith(engines) ==
  /\ InitFlowOf(engines, Categories, {LLMAgent}, {LLMAgent})
  /\ Alone

InitFlow == InitFlowWith(FlowEngines)

\* the content keys of the knowledge sources that can be built
SourceKeys ==
  { "baseline_" \o c \o "_" \o p :
      c \in Categories, p \in ProductTypes \cup {"ALL"} }
    \cup { "legal_" \o d : d \in Categories }

\* knowledge sources as constructed: no chunks, add() not called
FreshSources ==
  /\ chunks = [k \in SourceKeys |-> <<>>]
  /\ add_calls = [k \in SourceKeys |-> 0]

\* no database is opened by a TitleStyleFlow run
NoDatabase ==
  /\ baseline_style_guidelines = {}
  /\ legal_guidelines = {}
  /\ loaded = None
  /\ FreshSources

\* the decorators: @start(), @router(method), @listen(label)
StartMethods == {"start_flow"}

Routers == [route_draft_to_validation |-> "start_flow",
            route_revised_to_validation |-> "revise_draft"]

\* variant of Listeners: revise_draft also follows on_validated
Listeners_ReviseAfterApproval ==
  [revise_draft |-> "on_validated",
   on_validated |-> "validated",
   on_max_reached |-> "max_reached",
   on_approved |-> "approved"]

Listeners == [revise_draft |-> "needs_revision",
              on_validated |-> "validated",
              on_max_reached |-> "max_reached",
              on_approved |-> "approved"]

\* the methods a finished method or an emitted label sets off
Triggered(t) ==
  { m \in DOMAIN Routers : Routers[m] = t }
    \cup { m \in DOMAIN Listeners : Listeners[m] = t }

\* variant of Fail: the exception is swallowed and dispatching goes on
Fail_Swallowed(s) ==
  /\ state' = s
  /\ status' = "running"
  /\ UNCHANGED <<trigger, arg>>

\* a method raised: the flow stops with nothing further dispatched
Fail(s) ==
  /\ state' = s
  /\ status' = "failed"
  /\ UNCHANGED <<trigger, arg>>

\* a listener or start method returned: its name is dispatched next
Return(s, name, result) ==
  /\ state' = s
  /\ status' = "running"
  /\ trigger' = name
  /\ arg' = result

\* a router returned: the label it returned is dispatched next
Route(s, label) ==
  /\ state' = s
  /\ status' = "running"
  /\ trigger' = label
  /\ UNCHANGED arg

\* what self.title_writer.execute(writer_input) may return
WriterAnswers(feedback) ==
  IF title_writer.scripted THEN {title_writer.answers[feedback]}
  ELSE WriterOutcomes

\* what self.title_validator.execute(validator_input) may return
ValidatorAnswers(input) ==
  IF title_validator.scripted
    THEN {Verdict(title_validator.answers[input.draft_text], input)}
    ELSE ValidatorOutcomes(input)

NoWriterCall == UNCHANGED <<writer_calls, writer_input>>
NoValidatorCall == UNCHANGED <<validator_calls, validator_input, verdicts>>
NoAgentCall == NoWriterCall /\ NoValidatorCall /\ UNCHANGED last_outcome

\* title_writer.execute(writer_input), json.loads, state['draft'] = ...
CallWriter(s, feedback, name) ==
  /\ writer_calls' = writer_calls + 1
  /\ writer_input' = [category |-> s.category,
                      product_type |-> s.product_type,
                      generic_guidelines |-> s.guidelines,
                      feedback |-> feedback]
  /\ \E out \in WriterAnswers(feedback) :
       /\ last_outcome' = out.kind
       /\ IF out.kind # "json" THEN Fail(s)
          ELSE Return([s EXCEPT !.draft = out.value], name, out.value)

\* the validator_input dict, title_validator.execute, json.loads,
\* state['pending'] = ... and the routing on the feedback
CallValidator(s, draft) ==
  IF ~IsDict(draft)
    THEN Fail(s) /\ NoValidatorCall /\ UNCHANGED last_outcome
    ELSE
      LET input == [category |-> Get(draft, "category", s.category),
                    product_type |-> Get(draft, "product_type", s.product_type),
                    draft_text |-> Get(draft, "draft_text", ""),
                    feedback |-> <<>>]
      IN /\ validator_calls' =
              IF validator_calls < MaxValidatorCalls
                THEN validator_calls + 1 ELSE validator_calls
         /\ validator_input' = input
         /\ \E out \in ValidatorAnswers(input) :
              /\ last_outcome' = out.kind
              /\ IF out.kind # "json"
                   THEN Fail(s) /\ UNCHANGED verdicts
                 ELSE IF ~IsDict(out.value)
                   THEN Fail([s EXCEPT !.pending = out.value])
                          /\ UNCHANGED verdicts
                 ELSE
                   /\ verdicts' =
                        IF Len(verdicts) < MaxValidatorCalls
                          THEN Append(verdicts, Critique(out.value) # <<>>)
                          ELSE verdicts
                   /\ Route([s EXCEPT !.pending = out.value],
                            IF ~HasFeedback(out.value) THEN "validated"
                            ELSE "needs_revision")

\* variant of start_flow: the first draft is not counted as an iteration
start_flow_Uncounted ==
  /\ CallWriter(state, <<>>, "start_flow")
  /\ NoValidatorCall

\* @start() start_flow
start_flow ==
  /\ CallWriter([state EXCEPT !.iteration = 1], <<>>, "start_flow")
  /\ NoValidatorCall

\* @router(start_flow) route_draft_to_validation(draft)
route_draft_to_validation ==
  /\ CallValidator(state, arg)
  /\ NoWriterCall

\* variant of revise_draft: the cap test is > instead of >=
revise_draft_OffByOne ==
  IF state.iteration > state.max_iterations
    THEN /\ Return(state, "revise_draft", state.pending)
         /\ NoAgentCall
    ELSE /\ CallWriter([state EXCEPT !.iteration = @ + 1],
                       Get(state.pending, "feedback", <<>>), "revise_draft")
         /\ NoValidatorCall

\* variant of revise_draft: the writer is called again without the feedback
revise_draft_NoFeedback ==
  IF state.iteration >= state.max_iterations
    THEN /\ Return(state, "revise_draft", state.pending)
         /\ NoAgentCall
    ELSE /\ CallWriter([state EXCEPT !.iteration = @ + 1], <<>>, "revise_draft")
         /\ NoValidatorCall

\* variant of revise_draft: a refusal at the cap counts as an iteration
revise_draft_CountsRefusal ==
  IF state.iteration >= state.max_iterations
    THEN /\ Return([state EXCEPT !.iteration = @ + 1], "revise_draft",
                   state.pending)
         /\ NoAgentCall
    ELSE /\ CallWriter([state EXCEPT !.iteration = @ + 1],
                       Get(state.pending, "feedback", <<>>), "revise_draft")
         /\ NoValidatorCall

\* @listen("needs_revision") revise_draft
revise_draft ==
  IF state.iteration >= state.max_iterations
    THEN /\ Return(state, "revise_draft", state.pending)
         /\ NoAgentCall
    ELSE /\ CallWriter([state EXCEPT !.iteration = @ + 1],
                       Get(state.pending, "feedback", <<>>), "revise_draft")
         /\ NoValidatorCall

\* variant of route_revised_to_validation: a validation counts as an iteration
route_revised_to_validation_Counted ==
  /\ CallValidator([state EXCEPT !.iteration = @ + 1], arg)
  /\ NoWriterCall

\* @router(revise_draft) route_revised_to_validation(revised_draft)
route_revised_to_validation ==
  /\ CallValidator(state, arg)
  /\ NoWriterCall

\* Final_Title_Guide(...).dict() built from the pending guide
FinalGuide(s, prefix) ==
  [category |-> Get(s.pending, "category", s.category),
   product_type |-> Get(s.pending, "product_type", s.product_type),
   final_text |-> prefix \o Get(s.pending, "pending_text", "")]

\* variant of on_validated: the category the validator named is adopted
on_validated_Recategorised ==
  /\ Return([state EXCEPT
              !.final_guide = FinalGuide(state, ""),
              !.category = Get(state.pending, "category", state.category)],
            "on_validated", Str("approved"))
  /\ NoAgentCall

\* variant of human_approval: the human declines
human_approval_Declined == FALSE

\* on_validated: "human_approval = True  # For demonstration"
human_approval == TRUE

\* @listen("validated") on_validated
on_validated ==
  /\ IF human_approval
       THEN Return([state EXCEPT !.final_guide = FinalGuide(state, "")],
                   "on_validated", Str("approved"))
       ELSE Return(state, "on_validated", Str("rejected"))
  /\ NoAgentCall

\* @listen("max_reached") on_max_reached
on_max_reached ==
  /\ Return([state EXCEPT
              !.final_guide = FinalGuide(state, "(Partial Draft) ")],
            "on_max_reached", Str("done"))
  /\ NoAgentCall

\* @listen("approved") on_approved
on_approved ==
  /\ Return(state, "on_approved", Str("done"))
  /\ NoAgentCall

\* the body of the method named m
Run(m) ==
  CASE m = "start_flow" -> start_flow
    [] m = "route_draft_to_validation" -> route_draft_to_validation
    [] m = "revise_draft" -> revise_draft
    [] m = "route_revised_to_validation" -> route_revised_to_validation
    [] m = "on_validated" -> on_validated
    [] m = "on_max_reached" -> on_max_reached
    [] m = "on_approved" -> on_approved

\* Flow.kickoff: run the @start methods
kickoff ==
  /\ status = "new"
  /\ \E m \in StartMethods :
       /\ Run(m)
       /\ executed' = executed \cup {m}
  /\ UNCHANGED <<engine, run_result, title_writer, title_validator>>
  /\ UNCHANGED <<knowledge_vars, crew_vars, aux_vars>>

\* the flow runs a method set off by what finished last
execute_listeners ==
  /\ status = "running"
  /\ \E m \in Triggered(trigger) :
       /\ Run(m)
       /\ executed' = executed \cup {m}
  /\ UNCHANGED <<engine, run_result, title_writer, title_validator>>
  /\ UNCHANGED <<knowledge_vars, crew_vars, aux_vars>>

\* nothing listens to what finished last: kickoff returns
kickoff_returns ==
  /\ status = "running"
  /\ Triggered(trigger) = {}
  /\ status' = "done"
  /\ UNCHANGED <<state, trigger, arg, executed>>
  /\ NoAgentCall
  /\ UNCHANGED <<engine, run_result, title_writer, title_validator>>
  /\ UNCHANGED <<knowledge_vars, crew_vars, aux_vars>>

Init == InitFlow /\ NoDatabase

Next == kickoff \/ execute_listeners \/ kickoff_returns

Spec == Init /\ [][Next]_vars

\* A run with cap 1 and no generic guidelines in which the flow machinery
\* never idles while a method remains to be run: kickoff runs the triggered
\* methods until none is left.
InitCapOne == Init /\ state.max_iterations = 1 /\ state.guidelines = ""

FairSpec == InitCapOne /\ [][Next]_vars /\ WF_vars(Next)

\* ------------------------------------------------------------------------
\* knowledge/db_knowledge.py
\* ------------------------------------------------------------------------
GuidelineTexts == {"g1", "g2", "", NULL}
RowCategories == Categories \cup OtherCategories
RowProductTypes == ProductTypes \cup {"ALL", NULL}
\* product_type a BaselineStyleKnowledgeSource is built with
SourceProductTypes == ProductTypes \cup {"ALL"}
RowDomains == Categories \cup OtherCategories \cup {"ALL"}

BaselineRows ==
  [category : RowCategories, product_type : RowProductTypes,
   guidelines_text : GuidelineTexts]

LegalRows == [domain : RowDomains, legal_text : GuidelineTexts]

\* the subsets of S with at most n elements
RECURSIVE SubsetsUpTo(_, _)
SubsetsUpTo(S, n) ==
  IF n = 0 THEN {{}}
  ELSE LET smaller == SubsetsUpTo(S, n - 1)
       IN smaller \cup { T \cup {r} : T \in smaller, r \in S }

\* no flow object exists while the knowledge sources are exercised
NoFlow ==
  /\ state = None
  /\ status = "none"
  /\ trigger = ""
  /\ arg = None
  /\ executed = {}
  /\ writer_calls = 0
  /\ validator_calls = 0
  /\ writer_input = None
  /\ validator_input = None
  /\ verdicts = <<>>
  /\ last_outcome = ""
  /\ engine = None
  /\ run_result = NotReturned
  /\ title_writer = None
  /\ title_validator = None
  /\ Alone

\* a database holding at most MaxRows rows, nothing loaded yet
InitKnowledge ==
  /\ \E nb \in 0..MaxRows :
       /\ baseline_style_guidelines \in SubsetsUpTo(BaselineRows, nb)
       /\ legal_guidelines \in SubsetsUpTo(LegalRows, MaxRows - nb)
  /\ loaded = None
  /\ FreshSources
  /\ NoFlow
  /\ NoCrew

\* cursor.fetchone() after a SELECT ... LIMIT 1 without ORDER BY: None when
\* nothing matches, otherwise whichever matching row the engine yields
fetchone(rows) == IF rows = {} THEN {None} ELSE rows

\* WHERE category = ? AND product_type = ?   (NULL equals nothing)
query_exact(category, product_type) ==
  { r \in baseline_style_guidelines :
      /\ r.category = category
      /\ r.product_type # NULL
      /\ r.product_type = product_type }

\* WHERE category = ? AND product_type = 'ALL'
query_all(category) ==
  { r \in baseline_style_guidelines :
      r.category = category /\ r.product_type = "ALL" }

\* WHERE category = ? AND product_type IS NULL
query_null(category) ==
  { r \in baseline_style_guidelines :
      r.category = category /\ r.product_type = NULL }

\* variant of BaselineGuidelines: the NULL tier is asked before the 'ALL' tier
BaselineGuidelines_NullBeforeAll(category, product_type) ==
  UNION {
    IF row_exact # None THEN {row_exact.guidelines_text}
    ELSE UNION {
      IF row_null # None THEN {row_null.guidelines_text}
      ELSE UNION {
        IF row_all # None THEN {row_all.guidelines_text} ELSE {""}
        : row_all \in fetchone(query_all(category)) }
      : row_null \in fetchone(query_null(category)) }
    : row_exact \in fetchone(query_exact(category, product_type)) }

\* the texts BaselineStyleKnowledgeSource.load_content may end up with in
\* `guidelines` before the final `guidelines or ""`
BaselineGuidelines(category, product_type) ==
  UNION {
    IF row_exact # None THEN {row_exact.guidelines_text}
    ELSE UNION {
      IF row_all # None THEN {row_all.guidelines_text}
      ELSE UNION {
        IF row_null # None THEN {row_null.guidelines_text} ELSE {""}
        : row_null \in fetchone(query_null(category)) }
      : row_all \in fetchone(query_all(category)) }
    : row_exact \in fetchone(query_exact(category, product_type)) }

\* BaselineStyleKnowledgeSource.load_content
baseline_load_content ==
  /\ \E category \in Categories, product_type \in SourceProductTypes :
       \E guidelines \in BaselineGuidelines(category, product_type) :
         loaded' =
           [source |-> "baseline",
            category |-> category,
            product_type |-> product_type,
            content |->
              ("baseline_" \o category \o "_" \o product_type)
                :> OrEmpty(guidelines)]
  /\ UNCHANGED <<baseline_style_guidelines, legal_guidelines>>
  /\ UNCHANGED <<chunks, add_calls>>
  /\ UNCHANGED <<flow_vars, crew_vars, aux_vars>>

\* WHERE domain = ?
query_domain(domain) == { r \in legal_guidelines : r.domain = domain }

\* WHERE domain = 'ALL'
query_domain_all == { r \in legal_guidelines : r.domain = "ALL" }

\* variant of LegalGuidelines: the 'ALL' row is asked for before the domain row
LegalGuidelines_AllFirst(domain) ==
  UNION {
    IF row_all # None THEN {row_all.legal_text}
    ELSE { IF row # None THEN row.legal_text ELSE ""
           : row \in fetchone(query_domain(domain)) }
    : row_all \in fetchone(query_domain_all) }

\* the texts LegalKnowledgeSource.load_content may end up with in
\* `guidelines` before the final `guidelines or ""`
LegalGuidelines(domain) ==
  UNION {
    IF row # None THEN {row.legal_text}
    ELSE { IF row_all # None THEN row_all.legal_text ELSE ""
           : row_all \in fetchone(query_domain_all) }
    : row \in fetchone(query_domain(domain)) }

\* LegalKnowledgeSource.load_content
legal_load_content ==
  /\ \E domain \in Categories :
       \E guidelines \in LegalGuidelines(domain) :
         loaded' =
           [source |-> "legal",
            domain |-> domain,
            content |-> ("legal_" \o domain) :> OrEmpty(guidelines)]
  /\ UNCHANGED <<baseline_style_guidelines, legal_guidelines>>
  /\ UNCHANGED <<chunks, add_calls>>
  /\ UNCHANGED <<flow_vars, crew_vars, aux_vars>>

NextKnowledge == baseline_load_content \/ legal_load_content

KnowledgeSpec == InitKnowledge /\ [][NextKnowledge]_vars

\* BaseKnowledgeSource._chunk_text on a text shorter than one chunk: the
\* text itself, and no chunk at all for ""
chunk_text(text) == IF text = "" THEN <<>> ELSE <<text>>

\* the add() calls made so far on all sources
AddCalls ==
  LET RECURSIVE Sum(_)
      Sum(ks) == IF ks = {} THEN 0
                 ELSE LET k == CHOOSE x \in ks : TRUE
                      IN add_calls[k] + Sum(ks \ {k})
  IN Sum(SourceKeys)

\* the body shared by both add() methods once load_content has returned
\* {key: text}: chunk the text, extend self.chunks, save the documents
AddContent(key, text) ==
  /\ AddCalls < MaxAdds
  /\ chunks' = [chunks EXCEPT ![key] = @ \o chunk_text(text)]
  /\ add_calls' = [add_calls EXCEPT ![key] = @ + 1]

\* BaselineStyleKnowledgeSource.add
baseline_add ==
  /\ \E category \in Categories, product_type \in SourceProductTypes :
       \E guidelines \in BaselineGuidelines(category, product_type) :
         LET key == "baseline_" \o category \o "_" \o product_type
         IN /\ loaded' = [source |-> "baseline",
                          category |-> category,
                          product_type |-> product_type,
                          content |-> key :> OrEmpty(guidelines)]
            /\ AddContent(key, OrEmpty(guidelines))
  /\ UNCHANGED <<baseline_style_guidelines, legal_guidelines>>
  /\ UNCHANGED <<flow_vars, crew_vars, aux_vars>>

\* LegalKnowledgeSource.add
legal_add ==
  /\ \E domain \in Categories :
       \E guidelines \in LegalGuidelines(domain) :
         LET key == "legal_" \o domain
         IN /\ loaded' = [source |-> "legal",
                          domain |-> domain,
                          content |-> key :> OrEmpty(guidelines)]
            /\ AddContent(key, OrEmpty(guidelines))
  /\ UNCHANGED <<baseline_style_guidelines, legal_guidelines>>
  /\ UNCHANGED <<flow_vars, crew_vars, aux_vars>>

\* the knowledge sources as CrewAI drives them: add() on each source, and
\* load_content() by anyone holding the source
NextKnowledgeAdd ==
  baseline_load_content \/ legal_load_content \/ baseline_add \/ legal_add

KnowledgeAddSpec == InitKnowledge /\ [][NextKnowledgeAdd]_vars

\* reference data looked up either by a knowledge source or by the
\* constructor of a TitleStyleFlow, which is then kicked off
InitReference ==
  \/ InitKnowledge
  \/ InitFlowWith(Engines) /\ NoDatabase

NextReference == baseline_load_content \/ legal_load_content \/ kickoff

ReferenceSpec == InitReference /\ [][NextReference]_vars

\* ------------------------------------------------------------------------
\* StyleGuideCrew and generate_style_guide
\* ------------------------------------------------------------------------
\* variant of TaskOrder: the title draft is scheduled before the schema
TaskOrder_SchemaLate ==
  << "knowledge_retrieval_task", "domain_breakdown_task", "product_type_task",
     "title_guide_construction_task", "schema_inference_task",
     "title_legal_review_task", "title_final_refine_task",
     "shortdesc_guide_construction_task", "shortdesc_legal_review_task",
     "shortdesc_final_refine_task", "longdesc_guide_construction_task",
     "longdesc_legal_review_task", "longdesc_final_refine_task" >>

\* Crew(tasks=[...]) in crew()
TaskOrder ==
  << "knowledge_retrieval_task", "domain_breakdown_task", "product_type_task",
     "schema_inference_task", "title_guide_construction_task",
     "title_legal_review_task", "title_final_refine_task",
     "shortdesc_guide_construction_task", "shortdesc_legal_review_task",
     "shortdesc_final_refine_task", "longdesc_guide_construction_task",
     "longdesc_legal_review_task", "longdesc_final_refine_task" >>

Tasks == { TaskOrder[i] : i \in DOMAIN TaskOrder }

\* variant of Context: every task after the first takes the task declared
\* just before it
Context_Chained ==
  [t \in Tasks |->
     LET i == CHOOSE j \in DOMAIN TaskOrder : TaskOrder[j] = t
     IN IF i = 1 THEN <<>> ELSE << TaskOrder[i - 1] >>]

\* context=[...] of each Task
Context ==
  [t \in Tasks |->
     CASE t = "knowledge_retrieval_task" -> <<>>
       [] t = "domain_breakdown_task" -> << "knowledge_retrieval_task" >>
       [] t = "product_type_task" -> << "domain_breakdown_task" >>
       [] t = "schema_inference_task" -> << "product_type_task" >>
       [] t = "title_guide_construction_task" -> << "schema_inference_task" >>
       [] t = "title_legal_review_task" -> << "title_guide_construction_task" >>
       [] t = "title_final_refine_task" -> << "title_legal_review_task" >>
       [] t = "shortdesc_guide_construction_task" -> << "schema_inference_task" >>
       [] t = "shortdesc_legal_review_task" ->
            << "shortdesc_guide_construction_task" >>
       [] t = "shortdesc_final_refine_task" -> << "shortdesc_legal_review_task" >>
       [] t = "longdesc_guide_construction_task" -> << "schema_inference_task" >>
       [] t = "longdesc_legal_review_task" ->
            << "longdesc_guide_construction_task" >>
       [] t = "longdesc_final_refine_task" -> << "longdesc_legal_review_task" >>]

\* the top-level keys of each Task's expected_output
ExpectedKeys ==
  [t \in Tasks |->
     CASE t = "knowledge_retrieval_task" ->
            {"baseline_rules_summary", "legal_guidelines_summary"}
       [] t = "domain_breakdown_task" -> {"category_insights"}
       [] t = "product_type_task" -> {"product_type_analysis", "field_guidelines"}
       [] t = "schema_inference_task" -> {"final_schema", "schema_details"}
       [] t = "title_guide_construction_task" -> {"draftTitleGuide"}
       [] t = "title_legal_review_task" ->
            {"legally_reviewed_title", "title_legal_issues"}
       [] t = "title_final_refine_task" -> {"title_guide", "notes"}
       [] t = "shortdesc_guide_construction_task" -> {"draftShortDescGuide"}
       [] t = "shortdesc_legal_review_task" ->
            {"legally_reviewed_shortdesc", "shortdesc_legal_issues"}
       [] t = "shortdesc_final_refine_task" -> {"shortDesc_guide", "notes"}
       [] t = "longdesc_guide_construction_task" -> {"draftLongDescGuide"}
       [] t = "longdesc_legal_review_task" ->
            {"legally_reviewed_longdesc", "longdesc_legal_issues"}
       [] t = "longdesc_final_refine_task" -> {"longDesc_guide", "notes"}]

\* the keys store_final_guide looks for, in the order it looks for them
GuideKeys == << "title_guide", "shortDesc_guide", "longDesc_guide" >>

\* StyleGuideRequest.fields_needed: the default and two narrower requests
FieldsNeeded ==
  { << "title", "shortDesc", "longDesc" >>, << "title" >>, << "longDesc" >> }

\* StyleGuideRequest
StyleGuideRequests ==
  [category : Categories, product_type : ProductTypes,
   fields_needed : FieldsNeeded]

\* the category each of two clients calling the API at the same time asks for
ClientCategories == << "Fashion", "Toys" >>

\* the requests the client served by the executing thread may send
Incoming ==
  IF other = None THEN StyleGuideRequests
  ELSE [category : {ClientCategories[running]},
        product_type : ProductTypes,
        fields_needed : { << "title", "shortDesc", "longDesc" >> }]

\* the agent's raw answer is the empty string
EmptyText == [kind |-> "empty"]

\* the answer a task's agent gives when it follows expected_output: each
\* declared key with text written by that task
Conforming(t) == [k \in ExpectedKeys[t] |-> t]

\* what the last task's agent may answer in place of the expected output:
\* JSON with any of the three guide keys
FinalDicts ==
  { [k \in ks |-> "longdesc_final_refine_task"] :
      ks \in SUBSET { GuideKeys[n] : n \in DOMAIN GuideKeys } }

\* what json.loads gives for a raw answer that is a JSON number ("42"):
\* a value `in` cannot be applied to
JsonNumber == [py_number |-> TRUE]

\* a task raises or its agent answers; only the last task's answer is read
\* by the program, so only there are other answers than the expected one
\* told apart
TaskOutcomes(t) ==
  IF t = TaskOrder[Len(TaskOrder)]
    THEN {Raises, Unparseable, EmptyText, Json(JsonNumber),
          Json(Conforming(t))}
           \cup { Json(d) : d \in FinalDicts }
    ELSE {Raises, Json(Conforming(t))}

\* crew() reading self.inputs for the two knowledge sources
crew(inp) ==
  [category |-> Get(inp, "category", "Fashion"),
   product_type |-> Get(inp, "product_type", "ALL"),
   domain |-> Get(inp, "category", "Fashion")]

\* the service as started: no request yet, an empty published_style_guides
InitCrew ==
  /\ request = None
  /\ inputs = EmptyDict
  /\ crew_sources = None
  /\ phase = "none"
  /\ task_outputs = <<>>
  /\ task_context = <<>>
  /\ failed_task = 0
  /\ hooks = {}
  /\ published_style_guides = <<>>
  /\ rows_before = 0
  /\ response = None
  /\ runs = 0
  /\ NoFlow
  /\ NoDatabase

\* generate_style_guide up to the call of kickoff: StyleGuideCrew(db_path),
\* whose __init__ sets inputs = {}, then crew()
generate_style_guide ==
  /\ phase = "none"
  /\ runs < MaxRuns
  /\ request' \in Incoming
  /\ inputs' = EmptyDict
  /\ crew_sources' = crew(inputs')
  /\ phase' = "built"
  /\ task_outputs' = <<>>
  /\ task_context' = <<>>
  /\ failed_task' = 0
  /\ hooks' = {}
  /\ rows_before' = Len(published_style_guides)
  /\ response' = None
  /\ runs' = runs + 1
  /\ UNCHANGED published_style_guides
  /\ UNCHANGED <<flow_vars, knowledge_vars, aux_vars>>

\* @before_kickoff capture_inputs, called by kickoff(inputs=req.dict())
capture_inputs ==
  /\ phase = "built"
  /\ inputs' = request
  /\ hooks' = hooks \cup {"capture_inputs"}
  /\ phase' = "running"
  /\ UNCHANGED <<request, crew_sources, task_outputs, task_context,
                 failed_task, published_style_guides, rows_before, response,
                 runs>>
  /\ UNCHANGED <<flow_vars, knowledge_vars, aux_vars>>

\* the outputs a task is handed as its context: those of the tasks in its
\* context list that have an output
ContextFor(t) ==
  LET done == { task_outputs[j].task : j \in DOMAIN task_outputs }
      OutputOf(u) ==
        task_outputs[CHOOSE j \in DOMAIN task_outputs :
                       task_outputs[j].task = u]
      avail == SelectSeq(Context[t], LAMBDA u : u \in done)
  IN [n \in DOMAIN avail |-> OutputOf(avail[n])]

\* variant of Halt: the failure is recorded and the run goes on
Halt_Continue(i) ==
  /\ failed_task' = i
  /\ phase' = phase
  /\ task_outputs' = Append(task_outputs, [task |-> TaskOrder[i], raw |-> Raises])
  /\ task_context' = Append(task_context, ContextFor(TaskOrder[i]))

\* a task's exception leaves kickoff
Halt(i) ==
  /\ failed_task' = i
  /\ phase' = "failed"
  /\ UNCHANGED <<task_outputs, task_context>>

\* Process.sequential: the next task of the list is executed
execute_task ==
  /\ phase = "running"
  /\ Len(task_outputs) < Len(TaskOrder)
  /\ LET i == Len(task_outputs) + 1
         t == TaskOrder[i]
     IN \E out \in TaskOutcomes(t) :
          IF out = Raises THEN Halt(i)
          ELSE /\ task_outputs' = Append(task_outputs, [task |-> t, raw |-> out])
               /\ task_context' = Append(task_context, ContextFor(t))
               /\ UNCHANGED <<failed_task, phase>>
  /\ UNCHANGED <<request, inputs, crew_sources, hooks,
                 published_style_guides, rows_before, response, runs>>
  /\ UNCHANGED <<flow_vars, knowledge_vars, aux_vars>>

\* output.json_dict is None (no task sets output_json), so final_data is
\* json.loads(output.raw), {} when that raises
FinalData(output) ==
  IF output.raw.kind = "json" THEN output.raw.value ELSE EmptyDict

\* `field_key in final_data` can be evaluated; on an int it raises TypeError
Iterable(final_data) == final_data # JsonNumber

\* the rows store_snippet adds for the guide keys present in final_data
Snippets(final_data, category, product_type) ==
  LET present == SelectSeq(GuideKeys, LAMBDA k : k \in DOMAIN final_data)
  IN [n \in DOMAIN present |->
        [category |-> category,
         product_type |-> product_type,
         field_name |-> present[n],
         style_guide_md |-> final_data[present[n]]]]

\* variant of Insert: the new rows take the place of the table
Insert_Replace(table, rows) == rows

\* INSERT INTO published_style_guides ... followed by conn.commit()
Insert(table, rows) == table \o rows

\* an INSERT can raise only if one is executed; commit is always executed
StoreFaults(rows) ==
  IF rows = <<>> THEN {"none", "commit"} ELSE {"none", "insert", "commit"}

\* @after_kickoff store_final_guide, once every task has an output
store_final_guide ==
  /\ phase = "running"
  /\ Len(task_outputs) = Len(TaskOrder)
  /\ LET output == task_outputs[Len(task_outputs)]
         rows == Snippets(FinalData(output),
                          Get(inputs, "category", "Unspecified"),
                          Get(inputs, "product_type", "Unspecified"))
     IN IF ~Iterable(FinalData(output))
          THEN /\ UNCHANGED published_style_guides
               /\ phase' = "store_type_error"
          ELSE \E fault \in StoreFaults(rows) :
                 IF fault = "none"
                   THEN /\ published_style_guides'
                             = Insert(published_style_guides, rows)
                        /\ phase' = "stored"
                   ELSE /\ UNCHANGED published_style_guides
                        /\ phase' = "store_raised"
  /\ hooks' = hooks \cup {"store_final_guide"}
  /\ UNCHANGED <<request, inputs, crew_sources, task_outputs, task_context,
                 failed_task, rows_before, response, runs>>
  /\ UNCHANGED <<flow_vars, knowledge_vars, aux_vars>>

\* the rest of generate_style_guide: an exception of kickoff leaves it; else
\* final_data = result.json_dict or result.raw, HTTP 500 when that is empty
generate_style_guide_returns ==
  /\ phase \in {"failed", "store_raised", "store_type_error", "stored"}
  /\ response' =
       IF phase # "stored" THEN [kind |-> "exception"]
       ELSE LET raw == task_outputs[Len(task_outputs)].raw
            IN IF raw = EmptyText THEN [kind |-> "http_500"]
               ELSE [kind |-> "ok", data |-> raw]
  /\ phase' = "none"
  /\ UNCHANGED <<request, inputs, crew_sources, task_outputs, task_context,
                 failed_task, hooks, published_style_guides, rows_before, runs>>
  /\ UNCHANGED <<flow_vars, knowledge_vars, aux_vars>>

NextCrew ==
  \/ generate_style_guide
  \/ capture_inputs
  \/ execute_task
  \/ store_final_guide
  \/ generate_style_guide_returns

CrewSpec == InitCrew /\ [][NextCrew]_vars

\* ------------------------------------------------------------------------
\* TitleStyleGuideCrew.run, and the two programs side by side
\* ------------------------------------------------------------------------
\* bool(d) for a dict or None
Truthy(d) == d # None /\ DOMAIN d # {}

\* variant of parse_obj: the text is not carried over
parse_obj_Untexted(d) ==
  [category |-> d["category"],
   product_type |-> d["product_type"],
   final_text |-> ""]

\* Final_Title_Guide.parse_obj on a dict holding the three required fields:
\* the model object with those fields, other keys ignored
parse_obj(d) ==
  [category |-> d["category"],
   product_type |-> d["product_type"],
   final_text |-> d["final_text"]]

\* TitleStyleGuideCrew.run after self.flow.kickoff() has returned
run_returns ==
  /\ status = "done"
  /\ run_result = NotReturned
  /\ LET final_data == Get(state, "final_guide", EmptyDict)
     IN run_result' = IF Truthy(final_data) THEN parse_obj(final_data)
                      ELSE None
  /\ UNCHANGED <<state, status, trigger, arg, executed, writer_calls,
                 validator_calls, writer_input, validator_input, verdicts,
                 last_outcome, engine, title_writer, title_validator>>
  /\ UNCHANGED <<knowledge_vars, crew_vars, aux_vars>>

\* the flow as test_title_style_guide_crew patches it: kickoff has returned
\* and state holds at most a final_guide
PatchedStates ==
  { EmptyDict,
    [final_guide |-> None],
    [final_guide |-> EmptyDict],
    [final_guide |-> [category |-> "Fashion", product_type |-> "Dresses",
                      final_text |-> "p1"]] }

InitPatched ==
  /\ state \in PatchedStates
  /\ status = "done"
  /\ trigger = ""
  /\ arg = None
  /\ executed = {}
  /\ writer_calls = 0
  /\ validator_calls = 0
  /\ writer_input = None
  /\ validator_input = None
  /\ verdicts = <<>>
  /\ last_outcome = ""
  /\ engine = None
  /\ run_result = NotReturned
  /\ title_writer = None
  /\ title_validator = None
  /\ Alone
  /\ NoCrew
  /\ NoDatabase

\* either program: a TitleStyleGuideCrew (on a real or a patched flow) that
\* is run, or the API serving generate_style_guide
InitProgram == Init \/ InitPatched \/ InitCrew

NextProgram == Next \/ run_returns \/ NextCrew

ProgramSpec == InitProgram /\ [][NextProgram]_vars

\* ------------------------------------------------------------------------
\* tests/flow_mock.py: MockTitleStyleFlow
\* ------------------------------------------------------------------------
\* MockTitleStyleFlow.__init__, with the call counts of its two agents
NewMock(category, product_type, max_iterations) ==
  [state |-> [category |-> category,
              product_type |-> product_type,
              iteration |-> 0,
              max_iterations |-> max_iterations,
              feedback |-> <<>>,
              draft |-> None,
              pending |-> None,
              final_guide |-> None,
              guidelines |-> ""],
   status |-> "new",
   writer_calls |-> 0,
   validator_calls |-> 0]

\* an exception leaves MockTitleStyleFlow.kickoff
MockFailed(s, w, v) ==
  [state |-> s, status |-> "failed", writer_calls |-> w, validator_calls |-> v]

\* the end of MockTitleStyleFlow.kickoff: "Always approve in this mock"
MockFinalize(s, w, v) ==
  LET pending == s.pending
      final == [category |-> Get(pending, "category", s.category),
                product_type |-> Get(pending, "product_type", s.product_type),
                final_text |-> Get(pending, "pending_text", "")]
  IN [state |-> [s EXCEPT !.final_guide = final],
      status |-> "done", writer_calls |-> w, validator_calls |-> v]

\* one writer call and one validator call of MockTitleStyleFlow.kickoff with
\* the given feedback, w and v calls having been made, up to the assignment
\* of state['pending']
MockDraftAndValidate(s, feedback, w, v) ==
  LET out == CHOOSE o \in WriterAnswers(feedback) : TRUE
  IN IF out.kind # "json" THEN MockFailed(s, w + 1, v)
     ELSE
       LET draft == out.value
           s2 == [s EXCEPT !.draft = draft]
       IN IF ~IsDict(draft) THEN MockFailed(s2, w + 1, v)
          ELSE
            LET v_input ==
                  [category |-> Get(draft, "category", s.category),
                   product_type |-> Get(draft, "product_type", s.product_type),
                   draft_text |-> Get(draft, "draft_text", ""),
                   feedback |-> <<>>]
                val == CHOOSE o \in ValidatorAnswers(v_input) : TRUE
            IN IF val.kind # "json" THEN MockFailed(s2, w + 1, v + 1)
               ELSE [state |-> [s2 EXCEPT !.pending = val.value],
                     status |-> "validated",
                     writer_calls |-> w + 1, validator_calls |-> v + 1]

\* the optional revision of MockTitleStyleFlow.kickoff
MockRevise(s, w, v) ==
  IF ~IsDict(s.pending) THEN MockFailed(s, w, v)
  ELSE IF HasFeedback(s.pending)
    THEN LET r == MockDraftAndValidate([s EXCEPT !.iteration = @ + 1],
                                       Get(s.pending, "feedback", <<>>), w, v)
         IN IF r.status = "failed" THEN r
            ELSE MockFinalize(r.state, r.writer_calls, r.validator_calls)
    ELSE MockFinalize(s, w, v)

\* MockTitleStyleFlow.kickoff, its agents being the flow's scripted ones
mock_kickoff ==
  /\ mock # None
  /\ mock.status = "new"
  /\ title_writer.scripted
  /\ title_validator.scripted
  /\ mock' = LET r == MockDraftAndValidate(
                           [mock.state EXCEPT !.iteration = 1], <<>>, 0, 0)
             IN IF r.status = "failed" THEN r
                ELSE MockRevise(r.state, r.writer_calls, r.validator_calls)
  /\ UNCHANGED <<other, running, db_lock, txn>>
  /\ UNCHANGED <<flow_vars, knowledge_vars, crew_vars>>

\* a TitleStyleFlow without engine and a MockTitleStyleFlow built with the
\* same category, product type and cap, both given the same two agents
InitMock ==
  /\ InitFlowOf({None}, Categories, ScriptedWriters, ScriptedValidators)
  /\ NoDatabase
  /\ mock = NewMock(state.category, state.product_type, state.max_iterations)
  /\ Solo

NextMock == kickoff \/ execute_listeners \/ kickoff_returns \/ mock_kickoff

MockSpec == InitMock /\ [][NextMock]_vars

\* ------------------------------------------------------------------------
\* Properties of TitleStyleFlow
\* ------------------------------------------------------------------------
\* the two terminal outcomes
Approved == "on_validated" \in executed /\ state.final_guide # None
Exhausted == "on_max_reached" \in executed /\ state.final_guide # None

\* an agent invocation raised or returned text that does not parse
InvocationFailed == last_outcome \in {"raise", "unparseable"}

\* C1: for every max_iterations >= 1, a run in which every call returns
\* successfully terminates, and it terminates either Approved or Exhausted
\* (never both, never with final_guide still None).
C1_TerminatesApprovedOrExhausted ==
  (state.max_iterations >= 1) =>
    <>(\/ status = "failed"
       \/ /\ status = "done"
          /\ Approved # Exhausted)

\* C2: with max_iterations N >= 1, state['iteration'] <= N and the number
\* of writer invocations is <= N in every reachable state, whatever the
\* validator returns.
C2_IterationWithinCap ==
  (state.max_iterations >= 1) =>
    /\ state.iteration <= state.max_iterations
    /\ writer_calls <= state.max_iterations

\* C2 witness: the writer has been invoked N times and the validator more
\* often than that.
C2_Witness ==
  /\ state.max_iterations >= 1
  /\ writer_calls = state.max_iterations
  /\ state.iteration = state.max_iterations
  /\ validator_calls > state.max_iterations

\* revise_draft has returned the pending guide because the cap was reached
\* (a draft never carries a feedback key, a rejected pending guide does)
CapReached ==
  /\ status = "running"
  /\ trigger = "revise_draft"
  /\ state.iteration >= state.max_iterations
  /\ arg = state.pending

\* C3: once the iteration count has reached max_iterations with a non-empty
\* critique, the next thing the run does is on_max_reached, which sets
\* final_guide to the latest text behind "(Partial Draft) ", and neither
\* agent is invoked again.
C3_CapLeadsToExhausted ==
  [][CapReached =>
       /\ "on_max_reached" \in executed'
       /\ state'.final_guide = FinalGuide(state, "(Partial Draft) ")
       /\ writer_calls' = writer_calls
       /\ validator_input' = validator_input]_vars

\* C4: a validation leads to Approved iff the critique it returned is empty:
\* the router emits "validated" exactly for an empty critique, "validated"
\* is followed by on_validated setting final_guide, and final_guide is set
\* by no other step.
C4_ApprovedIffEmptyCritique ==
  /\ [](trigger \in {"validated", "needs_revision"} =>
          (trigger = "validated" <=> Critique(state.pending) = <<>>))
  /\ [][/\ (status = "running" /\ trigger = "validated") =>
             /\ "on_validated" \in executed'
             /\ state'.final_guide # None
        /\ (state'.final_guide # state.final_guide) =>
             /\ trigger = "validated"
             /\ Critique(state.pending) = <<>>
             /\ trigger' = "on_validated"]_vars

\* C4 witness: a run approved after a first critique that was not empty.
C4_Witness ==
  /\ Approved
  /\ verdicts = <<TRUE, FALSE>>
  /\ Critique(state.pending) = <<>>

\* the validator rejected the first k-1 drafts and accepted the k-th
RejectedThenAccepted(k) == verdicts = [i \in 1..k |-> i < k]

\* C5: for 1 <= k <= N, when the validator rejects the first k-1 drafts and
\* accepts the k-th, the run does not fail, iteration = k, the writer was
\* invoked exactly k times, and once on_validated has run final_guide is set
\* and stays so until the run is done.
C5_AcceptedAtKth ==
  \A k \in 1..MaxCap :
    (k <= state.max_iterations /\ RejectedThenAccepted(k)) =>
      /\ status # "failed"
      /\ state.iteration = k
      /\ writer_calls = k
      /\ (trigger # "validated" => Approved)

\* C5 witness: reject once then accept under cap 2, run finished.
C5_Witness ==
  /\ state.max_iterations = 2
  /\ RejectedThenAccepted(2)
  /\ status = "done"
  /\ state.iteration = 2
  /\ state.final_guide # None

\* C6: when a run is Approved, final_guide['final_text'] is the draft_text
\* of the latest writer output, whatever the validator answered.
C6_FinalTextIsAcceptedDraft ==
  Approved =>
    state.final_guide.final_text = Get(state.draft, "draft_text", NULL)

\* C7: when a writer or validator invocation raises or returns unparseable
\* text, the run has failed with final_guide None, and nothing further
\* happens in it: no retry, no other invocation.
C7_FailureStopsRun ==
  /\ [](InvocationFailed => status = "failed" /\ state.final_guide = None)
  /\ [][~InvocationFailed]_vars

\* C7 witness: the validator failed on a revised draft.
C7_Witness ==
  /\ InvocationFailed
  /\ status = "failed"
  /\ writer_calls = 2
  /\ validator_calls = 2

WellFormedDraft(d) ==
  d = None \/ (IsDict(d) /\ {"category", "product_type", "draft_text"} \subseteq DOMAIN d)

WellFormedPending(d) ==
  d = None \/ (IsDict(d) /\ "pending_text" \in DOMAIN d)

\* C8: malformed agent output is never masked: a run whose stored draft
\* lacks draft_text, category or product_type, or whose stored pending
\* guide lacks pending_text, has failed at that step.
C8_MalformedOutputSurfaces ==
  (status # "failed") =>
    WellFormedDraft(state.draft) /\ WellFormedPending(state.pending)

\* ------------------------------------------------------------------------
\* Properties of the knowledge sources
\* ------------------------------------------------------------------------
\* the text load_content returned (its mapping has a single key)
LoadedText == loaded.content[CHOOSE k \in DOMAIN loaded.content : TRUE]

FromBaseline == loaded # None /\ loaded.source = "baseline"
FromLegal == loaded # None /\ loaded.source = "legal"

\* the rows of each tier for the source that was asked
TierExact ==
  { r \in baseline_style_guidelines :
      r.category = loaded.category /\ r.product_type = loaded.product_type }
TierAll ==
  { r \in baseline_style_guidelines :
      r.category = loaded.category /\ r.product_type = "ALL" }
TierNull ==
  { r \in baseline_style_guidelines :
      r.category = loaded.category /\ r.product_type = NULL }
TierDomain == { r \in legal_guidelines : r.domain = loaded.domain }
TierDomainAll == { r \in legal_guidelines : r.domain = "ALL" }

\* the texts of a set of rows as Python strings (NULL reads as "")
BaselineTexts(rows) ==
  { IF r.guidelines_text = NULL THEN "" ELSE r.guidelines_text : r \in rows }
LegalTexts(rows) ==
  { IF r.legal_text = NULL THEN "" ELSE r.legal_text : r \in rows }

\* C9: BaselineStyleKnowledgeSource.load_content returns the text of an
\* exact (category, product_type) row when one is present, else of a
\* (category, 'ALL') row when one is present, else of a (category, NULL)
\* row when one is present, else "".
C9_BaselineTierPriority ==
  FromBaseline =>
    IF TierExact # {} THEN LoadedText \in BaselineTexts(TierExact)
    ELSE IF TierAll # {} THEN LoadedText \in BaselineTexts(TierAll)
    ELSE IF TierNull # {} THEN LoadedText \in BaselineTexts(TierNull)
    ELSE LoadedText = ""

\* C9 witness: ("Fashion","Dresses") asked, no exact row, an 'ALL' row and
\* a NULL row with different texts, the 'ALL' text returned.
C9_Witness ==
  /\ FromBaseline
  /\ loaded.category = "Fashion"
  /\ loaded.product_type = "Dresses"
  /\ TierExact = {}
  /\ BaselineTexts(TierAll) = {"g1"}
  /\ BaselineTexts(TierNull) = {"g2"}
  /\ LoadedText = "g1"

\* the tiers of the source that was asked, in priority order, each as the
\* set of texts its rows hold
Tiers ==
  IF loaded.source = "baseline"
    THEN << BaselineTexts(TierExact), BaselineTexts(TierAll),
            BaselineTexts(TierNull) >>
    ELSE << LegalTexts(TierDomain), LegalTexts(TierDomainAll) >>

\* C10: both load_content methods return the text of the first tier, in
\* priority order, whose row exists with non-empty text; a tier whose row
\* holds empty or NULL text is passed over; "" when no tier has such a row.
\* (Where a tier holds several rows, any of them may be the row fetched.)
C10_FirstNonEmptyTierWins ==
  (loaded # None) =>
    \/ /\ LoadedText = ""
       /\ \A i \in DOMAIN Tiers : Tiers[i] = {} \/ "" \in Tiers[i]
    \/ \E i \in DOMAIN Tiers :
         /\ LoadedText # ""
         /\ LoadedText \in Tiers[i]
         /\ \A j \in 1..(i - 1) : Tiers[j] = {} \/ "" \in Tiers[j]

\* the rows of the first tier, in priority order, that has any row for the
\* source that was asked; {} when no tier has a row
FirstTierRows ==
  IF loaded.source = "baseline"
    THEN IF TierExact # {} THEN TierExact
         ELSE IF TierAll # {} THEN TierAll ELSE TierNull
    ELSE IF TierDomain # {} THEN TierDomain ELSE TierDomainAll

\* the text column of a row of either table, as stored
StoredText(r) ==
  IF "legal_text" \in DOMAIN r THEN r.legal_text ELSE r.guidelines_text

\* the flow was built without an engine or its lookup matched no row
NoGenericGuidelines ==
  state # None /\ (engine = None \/ engine.rows = {})

\* C11: absent reference data is never an error. Both load_content methods
\* return a mapping whose value is a string, and it is "" when no tier has a
\* row or when the rows of the tier that answers hold NULL; a TitleStyleFlow
\* built without an engine, or whose lookup matches no GenericTitleGuides
\* row, has state['guidelines'] = "", and once kicked off it has run
\* start_flow and invoked the writer with generic_guidelines "".
C11_AbsenceIsEmptyNotError ==
  /\ (loaded # None) =>
       /\ LoadedText # NULL
       /\ (\A r \in FirstTierRows : StoredText(r) = NULL) => LoadedText = ""
  /\ NoGenericGuidelines =>
       /\ state.guidelines = ""
       /\ (status # "new") =>
            /\ "start_flow" \in executed
            /\ writer_calls = 1
            /\ writer_input.generic_guidelines = ""

\* C11 witness: a flow whose engine matched no row has been kicked off and
\* its writer has answered with a draft.
C11_Witness ==
  /\ state # None
  /\ engine = [rows |-> {}]
  /\ status = "running"
  /\ writer_calls = 1
  /\ state.guidelines = ""
  /\ state.draft # None

\* C12: LegalKnowledgeSource.load_content returns, under the single key
\* 'legal_<domain>', the legal_text of a row of the requested domain when one
\* exists, else the legal_text of a domain = 'ALL' row when one exists, else
\* "" (a NULL legal_text reads as "").
C12_LegalDomainThenAll ==
  FromLegal =>
    /\ DOMAIN loaded.content = {"legal_" \o loaded.domain}
    /\ IF TierDomain # {} THEN LoadedText \in LegalTexts(TierDomain)
       ELSE IF TierDomainAll # {} THEN LoadedText \in LegalTexts(TierDomainAll)
       ELSE LoadedText = ""

\* C12 witness: "Fashion" asked, no Fashion row, an 'ALL' row with text "g1",
\* "g1" returned under 'legal_Fashion'.
C12_Witness ==
  /\ FromLegal
  /\ loaded.domain = "Fashion"
  /\ TierDomain = {}
  /\ LegalTexts(TierDomainAll) = {"g1"}
  /\ loaded.content = ("legal_Fashion" :> "g1")

\* C13: knowledge resolution is idempotent and read-only: no step of
\* load_content or add changes a table, and an add() on a source that has
\* already been added, the database being unchanged, leaves that source's
\* accumulated chunks as they were after the first add.
C13_ResolutionIdempotent ==
  [][ /\ UNCHANGED <<baseline_style_guidelines, legal_guidelines>>
      /\ \A k \in SourceKeys :
           (add_calls[k] >= 1) => chunks'[k] = chunks[k] ]_vars

\* ------------------------------------------------------------------------
\* Two runs at the same time. Each run has its own objects (a
\* TitleStyleGuideCrew with its TitleStyleFlow, or the StyleGuideCrew that
\* generate_style_guide builds per request); db_path names one SQLite file.
\* One thread executes at a time; the variables of the programs hold the
\* attributes of the executing run's objects, other those of the run that
\* waits.
\* ------------------------------------------------------------------------
\* the attributes of the executing run's objects and its open connection
Private ==
  [state |-> state, status |-> status, trigger |-> trigger, arg |-> arg,
   executed |-> executed, writer_calls |-> writer_calls,
   validator_calls |-> validator_calls, writer_input |-> writer_input,
   validator_input |-> validator_input, verdicts |-> verdicts,
   last_outcome |-> last_outcome, engine |-> engine,
   run_result |-> run_result, title_writer |-> title_writer,
   title_validator |-> title_validator,
   request |-> request, inputs |-> inputs, crew_sources |-> crew_sources,
   phase |-> phase, task_outputs |-> task_outputs,
   task_context |-> task_context, failed_task |-> failed_task,
   hooks |-> hooks, rows_before |-> rows_before, response |-> response,
   txn |-> txn]

\* variant of Restore: inputs is one dictionary shared by every StyleGuideCrew
Restore_SharedInputs(p) ==
  /\ state' = p.state
  /\ status' = p.status
  /\ trigger' = p.trigger
  /\ arg' = p.arg
  /\ executed' = p.executed
  /\ writer_calls' = p.writer_calls
  /\ validator_calls' = p.validator_calls
  /\ writer_input' = p.writer_input
  /\ validator_input' = p.validator_input
  /\ verdicts' = p.verdicts
  /\ last_outcome' = p.last_outcome
  /\ engine' = p.engine
  /\ run_result' = p.run_result
  /\ title_writer' = p.title_writer
  /\ title_validator' = p.title_validator
  /\ request' = p.request
  /\ UNCHANGED inputs
  /\ crew_sources' = p.crew_sources
  /\ phase' = p.phase
  /\ task_outputs' = p.task_outputs
  /\ task_context' = p.task_context
  /\ failed_task' = p.failed_task
  /\ hooks' = p.hooks
  /\ rows_before' = p.rows_before
  /\ response' = p.response
  /\ txn' = p.txn

\* the thread of the run whose attributes are p goes on: self.state,
\* self.engine, the agents, self.inputs and the locals of its calls are its
\* own objects' (every attribute is assigned in an __init__, none on a class)
Restore(p) ==
  /\ state' = p.state
  /\ status' = p.status
  /\ trigger' = p.trigger
  /\ arg' = p.arg
  /\ executed' = p.executed
  /\ writer_calls' = p.writer_calls
  /\ validator_calls' = p.validator_calls
  /\ writer_input' = p.writer_input
  /\ validator_input' = p.validator_input
  /\ verdicts' = p.verdicts
  /\ last_outcome' = p.last_outcome
  /\ engine' = p.engine
  /\ run_result' = p.run_result
  /\ title_writer' = p.title_writer
  /\ title_validator' = p.title_validator
  /\ request' = p.request
  /\ inputs' = p.inputs
  /\ crew_sources' = p.crew_sources
  /\ phase' = p.phase
  /\ task_outputs' = p.task_outputs
  /\ task_context' = p.task_context
  /\ failed_task' = p.failed_task
  /\ hooks' = p.hooks
  /\ rows_before' = p.rows_before
  /\ response' = p.response
  /\ txn' = p.txn

\* the scheduler gives the processor to the other run's thread; the table,
\* the lock on the database file and the served-requests count are the
\* process's, not a run's
switch ==
  /\ other # None
  /\ running' = 3 - running
  /\ other' = Private
  /\ Restore(other)
  /\ UNCHANGED <<published_style_guides, runs, db_lock, mock>>
  /\ UNCHANGED knowledge_vars

\* store_final_guide up to sqlite3.connect and conn.cursor(): final_data,
\* category and product_type are locals of the call. A connection an earlier
\* call of this thread left open (it raised before conn.close()) has been
\* discarded with its exception by now, its lock with it
store_final_guide_begins ==
  /\ phase = "running"
  /\ Len(task_outputs) = Len(TaskOrder)
  /\ txn' = [final_data |-> FinalData(task_outputs[Len(task_outputs)]),
             category |-> Get(inputs, "category", "Unspecified"),
             product_type |-> Get(inputs, "product_type", "Unspecified"),
             next |-> 1,
             rows |-> <<>>]
  /\ phase' = "storing"
  /\ hooks' = hooks \cup {"store_final_guide"}
  /\ db_lock' = IF db_lock = running THEN 0 ELSE db_lock
  /\ UNCHANGED <<request, inputs, crew_sources, task_outputs, task_context,
                 failed_task, published_style_guides, rows_before, response,
                 runs>>
  /\ UNCHANGED <<mock, other, running>>
  /\ UNCHANGED <<flow_vars, knowledge_vars>>

\* variant of store_snippet: the connection is in autocommit mode, each
\* INSERT is in the table at once
store_snippet_Autocommit ==
  /\ phase = "storing"
  /\ txn.next <= Len(GuideKeys)
  /\ LET field_key == GuideKeys[txn.next]
     IN IF ~Iterable(txn.final_data)
          THEN /\ txn' = None
               /\ phase' = "store_type_error"
               /\ UNCHANGED <<db_lock, published_style_guides>>
        ELSE IF field_key \notin DOMAIN txn.final_data
          THEN /\ txn' = [txn EXCEPT !.next = @ + 1]
               /\ UNCHANGED <<db_lock, phase, published_style_guides>>
        ELSE IF db_lock \in {0, running}
          THEN /\ txn' = [txn EXCEPT !.next = @ + 1]
               /\ published_style_guides' =
                    Append(published_style_guides,
                           [category |-> txn.category,
                            product_type |-> txn.product_type,
                            field_name |-> field_key,
                            style_guide_md |-> txn.final_data[field_key]])
               /\ UNCHANGED <<db_lock, phase>>
        ELSE /\ txn' = None
             /\ phase' = "store_raised"
             /\ UNCHANGED <<db_lock, published_style_guides>>
  /\ UNCHANGED <<request, inputs, crew_sources, task_outputs, task_context,
                 failed_task, hooks, rows_before, response, runs>>
  /\ UNCHANGED <<mock, other, running>>
  /\ UNCHANGED <<flow_vars, knowledge_vars>>

\* store_snippet(field_key): nothing for a key final_data lacks. The first
\* INSERT of a connection opens a transaction and takes the write lock of
\* the database file, kept until commit; while another connection holds it
\* the INSERT waits (this action is then not taken) and, once sqlite3's
\* timeout (5 seconds by default) has passed, raises OperationalError
\* "database is locked", which leaves store_final_guide
store_snippet ==
  /\ phase = "storing"
  /\ txn.next <= Len(GuideKeys)
  /\ LET field_key == GuideKeys[txn.next]
     IN IF ~Iterable(txn.final_data)
          THEN /\ txn' = None
               /\ phase' = "store_type_error"
               /\ UNCHANGED db_lock
        ELSE IF field_key \notin DOMAIN txn.final_data
          THEN /\ txn' = [txn EXCEPT !.next = @ + 1]
               /\ UNCHANGED <<db_lock, phase>>
        ELSE IF db_lock \in {0, running}
          THEN /\ txn' = [txn EXCEPT
                            !.next = @ + 1,
                            !.rows = Append(@,
                               [category |-> txn.category,
                                product_type |-> txn.product_type,
                                field_name |-> field_key,
                                style_guide_md |-> txn.final_data[field_key]])]
               /\ db_lock' = running
               /\ UNCHANGED phase
        ELSE /\ txn' = None
             /\ phase' = "store_raised"
             /\ UNCHANGED db_lock
  /\ UNCHANGED <<request, inputs, crew_sources, task_outputs, task_context,
                 failed_task, hooks, published_style_guides, rows_before,
                 response, runs>>
  /\ UNCHANGED <<mock, other, running>>
  /\ UNCHANGED <<flow_vars, knowledge_vars>>

\* conn.commit(), cursor.close(), conn.close(): the inserted rows become the
\* table's and the write lock is released
store_final_guide_commits ==
  /\ phase = "storing"
  /\ txn.next > Len(GuideKeys)
  /\ published_style_guides' = Insert(published_style_guides, txn.rows)
  /\ db_lock' = IF db_lock = running THEN 0 ELSE db_lock
  /\ txn' = None
  /\ phase' = "stored"
  /\ UNCHANGED <<request, inputs, crew_sources, task_outputs, task_context,
                 failed_task, hooks, rows_before, response, runs>>
  /\ UNCHANGED <<mock, other, running>>
  /\ UNCHANGED <<flow_vars, knowledge_vars>>

\* the attributes of a run none of whose objects is built
Unbuilt ==
  [state |-> None, status |-> "none", trigger |-> "", arg |-> None,
   executed |-> {}, writer_calls |-> 0, validator_calls |-> 0,
   writer_input |-> None, validator_input |-> None, verdicts |-> <<>>,
   last_outcome |-> "", engine |-> None, run_result |-> NotReturned,
   title_writer |-> None, title_validator |-> None,
   request |-> None, inputs |-> EmptyDict, crew_sources |-> None,
   phase |-> "off", task_outputs |-> <<>>, task_context |-> <<>>,
   failed_task |-> 0, hooks |-> {}, rows_before |-> 0, response |-> None,
   txn |-> None]

\* the attributes TitleStyleFlow.__init__ leaves, without an engine
FlowBuilt(category, product_type, max_iterations, writer, validator) ==
  [Unbuilt EXCEPT
     !.state = [category |-> category,
                product_type |-> product_type,
                iteration |-> 0,
                max_iterations |-> max_iterations,
                feedback |-> <<>>,
                draft |-> None,
                pending |-> None,
                final_guide |-> None,
                guidelines |-> ""],
     !.status = "new",
     !.trigger = "kickoff",
     !.title_writer = writer,
     !.title_validator = validator]

\* the writers and validators two flows run at the same time are given: a
\* writer that improves its draft on feedback and one that fails then; a
\* validator that accepts the improved draft only, one that accepts every
\* draft and one that accepts none
ConcurrentWriters ==
  { Scripted(<<>> :> Json([draft_text |-> "d1"])
               @@ <<"f1">> :> Json([draft_text |-> "d2"])),
    Scripted(<<>> :> Json([draft_text |-> "d1"]) @@ <<"f1">> :> Raises) }

ConcurrentValidators ==
  { Scripted("d1" :> "reject" @@ "d2" :> "accept" @@ "" :> "accept"),
    Scripted("d1" :> "accept" @@ "d2" :> "accept" @@ "" :> "accept"),
    Scripted("d1" :> "reject" @@ "d2" :> "reject" @@ "" :> "reject") }

\* two TitleStyleGuideCrew, one per category, about to be run
InitConcurrentFlows ==
  /\ InitFlowOf({None}, {ClientCategories[1]},
                ConcurrentWriters, ConcurrentValidators)
  /\ NoDatabase
  /\ mock = None
  /\ running = 1
  /\ db_lock = 0
  /\ txn = None
  /\ other \in { FlowBuilt(ClientCategories[2], product_type, max_iterations,
                            writer, validator) :
                    product_type \in ProductTypes,
                    max_iterations \in 0..MaxCap,
                    writer \in ConcurrentWriters,
                    validator \in ConcurrentValidators }

\* the API serving two clients, each on its own thread: no request yet
InitConcurrentCrews ==
  /\ request = None
  /\ inputs = EmptyDict
  /\ crew_sources = None
  /\ phase = "none"
  /\ task_outputs = <<>>
  /\ task_context = <<>>
  /\ failed_task = 0
  /\ hooks = {}
  /\ published_style_guides = <<>>
  /\ rows_before = 0
  /\ response = None
  /\ runs = 0
  /\ state = None
  /\ status = "none"
  /\ trigger = ""
  /\ arg = None
  /\ executed = {}
  /\ writer_calls = 0
  /\ validator_calls = 0
  /\ writer_input = None
  /\ validator_input = None
  /\ verdicts = <<>>
  /\ last_outcome = ""
  /\ engine = None
  /\ run_result = NotReturned
  /\ title_writer = None
  /\ title_validator = None
  /\ NoDatabase
  /\ mock = None
  /\ running = 1
  /\ db_lock = 0
  /\ txn = None
  /\ other = [Unbuilt EXCEPT !.phase = "none"]

InitConcurrent == InitConcurrentFlows \/ InitConcurrentCrews

NextConcurrent ==
  \/ switch
  \/ kickoff
  \/ execute_listeners
  \/ kickoff_returns
  \/ run_returns
  \/ generate_style_guide
  \/ capture_inputs
  \/ execute_task
  \/ store_final_guide_begins
  \/ store_snippet
  \/ store_final_guide_commits
  \/ generate_style_guide_returns

ConcurrentSpec == InitConcurrent /\ [][NextConcurrent]_vars

\* ------------------------------------------------------------------------
\* store_final_guide statement by statement, the database failing at will
\* ------------------------------------------------------------------------
\* cursor.execute(INSERT ...) raises for a reason of the database's (disk
\* full, I/O error, a constraint): the exception leaves store_final_guide
\* before conn.commit() and conn.close(); the rows inserted so far stay
\* uncommitted on the connection, which is never committed
store_snippet_raises ==
  /\ phase = "storing"
  /\ txn.next <= Len(GuideKeys)
  /\ Iterable(txn.final_data)
  /\ GuideKeys[txn.next] \in DOMAIN txn.final_data
  /\ db_lock \in {0, running}
  /\ phase' = "store_raised"
  /\ UNCHANGED <<request, inputs, crew_sources, task_outputs, task_context,
                 failed_task, hooks, published_style_guides, rows_before,
                 response, runs>>
  /\ UNCHANGED <<flow_vars, knowledge_vars, aux_vars>>

\* conn.commit() raises: nothing of the transaction reaches the table
commit_raises ==
  /\ phase = "storing"
  /\ txn.next > Len(GuideKeys)
  /\ phase' = "store_raised"
  /\ UNCHANGED <<request, inputs, crew_sources, task_outputs, task_context,
                 failed_task, hooks, published_style_guides, rows_before,
                 response, runs>>
  /\ UNCHANGED <<flow_vars, knowledge_vars, aux_vars>>

NextStore ==
  \/ generate_style_guide
  \/ capture_inputs
  \/ execute_task
  \/ store_final_guide_begins
  \/ store_snippet
  \/ store_snippet_raises
  \/ store_final_guide_commits
  \/ commit_raises
  \/ generate_style_guide_returns

StoreSpec == InitCrew /\ [][NextStore]_vars

\* ------------------------------------------------------------------------
\* Properties of StyleGuideCrew
\* ------------------------------------------------------------------------
\* the rows this run has added to the table
NewRows ==
  SubSeq(published_style_guides, rows_before + 1, Len(published_style_guides))

\* every task of the list has an output
AllTasksComplete == Len(task_outputs) = Len(TaskOrder)

\* position of a task in the list handed to Crew
Position(t) == CHOOSE i \in DOMAIN TaskOrder : TaskOrder[i] = t

\* C14: if the task at position i of the 13 raises, the run halts there: no
\* task at a later position is executed (exactly the i - 1 earlier tasks
\* have outputs), store_final_guide is not executed, and the table holds
\* the rows it held when the run began.
C14_FailureHaltsRun ==
  (failed_task # 0) =>
    /\ Len(task_outputs) = failed_task - 1
    /\ "store_final_guide" \notin hooks
    /\ Len(published_style_guides) = rows_before

\* C14 witness: the fifth task raised after four tasks completed, and the
\* caller has been handed the exception.
C14_Witness ==
  /\ failed_task = 5
  /\ Len(task_outputs) = 4
  /\ phase = "none"
  /\ response = [kind |-> "exception"]

\* C15 as stated: tasks execute one at a time in the declared order, and
\* every task after the first is given the output of the task immediately
\* before it as its context.
C15_ContextIsPrecedingOutput ==
  /\ \A i \in DOMAIN task_outputs : task_outputs[i].task = TaskOrder[i]
  /\ \A i \in DOMAIN task_context :
       (i > 1) => task_context[i] = << task_outputs[i - 1] >>

\* the task whose output a task after the first consumes
Upstream(t) ==
  IF t \in {"shortdesc_guide_construction_task",
            "longdesc_guide_construction_task"}
    THEN "schema_inference_task"
    ELSE TaskOrder[Position(t) - 1]

\* C15 amended: tasks execute one at a time in the declared order, and every
\* task after the first is given the output of exactly one earlier task:
\* the one immediately before it, except that
\* shortdesc_guide_construction_task and longdesc_guide_construction_task
\* are given the output of schema_inference_task.
C15_ContextIsOneEarlierOutput ==
  /\ Len(task_context) = Len(task_outputs)
  /\ \A i \in DOMAIN task_outputs : task_outputs[i].task = TaskOrder[i]
  /\ \A i \in DOMAIN task_context :
       IF i = 1 THEN task_context[i] = <<>>
       ELSE task_context[i] =
              << task_outputs[Position(Upstream(TaskOrder[i]))] >>

\* C15 witness: all 13 tasks have run and the short description draft was
\* given the schema, not the title guide that was produced just before it.
C15_Witness ==
  /\ AllTasksComplete
  /\ task_context[8] = << task_outputs[4] >>
  /\ task_context[8] # << task_outputs[7] >>
  /\ task_context[11] = << task_outputs[4] >>

\* C16: the context lists form an acyclic graph: every task named in a
\* task's context list stands strictly earlier in the list handed to Crew,
\* so every executed task found the output of each of its context tasks.
C16_ContextIsEarlier ==
  /\ \A t \in Tasks :
       \A n \in DOMAIN Context[t] :
         /\ Context[t][n] \in Tasks
         /\ Position(Context[t][n]) < Position(t)
  /\ \A i \in DOMAIN task_context :
       /\ Len(task_context[i]) = Len(Context[TaskOrder[i]])
       /\ \A n \in DOMAIN task_context[i] :
            task_context[i][n].task = Context[TaskOrder[i]][n]

\* C16 witness: the last task has run on the output of the task it names.
C16_Witness ==
  /\ AllTasksComplete
  /\ task_context[13] = << task_outputs[12] >>
  /\ task_outputs[12].task = "longdesc_legal_review_task"

\* C17: no two tasks that have run declare the same top-level output key,
\* so merging their outputs into one mapping overwrites no task's key.
C17_OutputKeysDisjoint ==
  \A i, j \in DOMAIN task_outputs :
    (i # j) =>
      ExpectedKeys[task_outputs[i].task]
        \cap ExpectedKeys[task_outputs[j].task] = {}

\* the key under which a requested field's snippet is delivered
GuideKey(f) == f \o "_guide"

\* the task that produces a field's final refined snippet
FinalRefineTask(f) ==
  CASE f = "title" -> "title_final_refine_task"
    [] f = "shortDesc" -> "shortdesc_final_refine_task"
    [] f = "longDesc" -> "longdesc_final_refine_task"

\* the final refined snippet of a field in this run, NULL if the task's
\* answer does not hold it
FinalSnippet(f) ==
  LET raw == task_outputs[Position(FinalRefineTask(f))].raw
  IN IF raw.kind = "json" THEN Get(raw.value, GuideKey(f), NULL) ELSE NULL

\* C18: after a run in which all tasks completed and store_final_guide
\* returned, the run has added exactly one row for each field in
\* fields_needed, holding that field's final refined snippet, and no row
\* for any other field.
C18_OneRowPerRequestedField ==
  (phase = "stored") =>
    \A f \in {"title", "shortDesc", "longDesc"} :
      LET mine == { n \in DOMAIN NewRows :
                      NewRows[n].field_name \in {f, GuideKey(f)} }
          requested == \E n \in DOMAIN request.fields_needed :
                         request.fields_needed[n] = f
      IN IF requested
           THEN /\ Cardinality(mine) = 1
                /\ \A n \in mine : NewRows[n].style_guide_md = FinalSnippet(f)
           ELSE mine = {}

\* C19: the table is append-only: every step, store_final_guide included,
\* leaves each row that was in published_style_guides in place and
\* unchanged, and can only add rows after them.
C19_AppendOnly ==
  [][ /\ Len(published_style_guides') >= Len(published_style_guides)
      /\ SubSeq(published_style_guides', 1, Len(published_style_guides))
           = published_style_guides ]_vars

\* C19 witness: a second run has stored rows after those of a first run.
C19_Witness ==
  /\ runs = 2
  /\ phase = "stored"
  /\ rows_before > 0
  /\ Len(published_style_guides) > rows_before

\* C20: when store_final_guide raises after all tasks completed, the caller
\* of generate_style_guide still receives the completed run's output.
C20_ResultSurvivesStoreFailure ==
  [][ (phase = "store_raised") =>
        /\ response'.kind = "ok"
        /\ response'.data = task_outputs[Len(task_outputs)].raw ]_vars

\* C27: the knowledge sources crew() builds for a request are keyed by the
\* request: the baseline source has the request's category and
\* product_type, the legal source has the request's category as its domain.
C27_SourcesKeyedByRequest ==
  (crew_sources # None) =>
    /\ crew_sources.category = request.category
    /\ crew_sources.product_type = request.product_type
    /\ crew_sources.domain = request.category

\* C28: every row a run has inserted carries the run's category and
\* product_type and a field_name that is one of 'title', 'shortDesc',
\* 'longDesc'.
C28_RowsNameTheField ==
  \A n \in DOMAIN NewRows :
    /\ NewRows[n].category = request.category
    /\ NewRows[n].product_type = request.product_type
    /\ NewRows[n].field_name \in {"title", "shortDesc", "longDesc"}

\* ------------------------------------------------------------------------
\* Properties of the steps of TitleStyleFlow
\* ------------------------------------------------------------------------
\* the step about to be taken runs a writer method / a validation method
WriterStep ==
  \/ status = "new"
  \/ status = "running" /\ Triggered(trigger) = {"revise_draft"}
ValidationStep ==
  /\ status = "running"
  /\ Triggered(trigger) # {}
  /\ Triggered(trigger) \subseteq DOMAIN Routers

\* C25: writer and validator invocations strictly alternate, writer first:
\* whenever the validator is invoked, the writer has been invoked once more
\* than the validator so far, and the draft_text the validator receives is
\* the draft_text of the latest writer output (state['draft']).
C25_ValidatorFollowsWriter ==
  [][ (validator_calls' > validator_calls) =>
        /\ writer_calls = validator_calls + 1
        /\ validator_input'.draft_text = Get(state.draft, "draft_text", "")
    ]_vars

\* C26: the first writer invocation receives the empty feedback list; every
\* later one receives the feedback list of the latest validator answer
\* (state['pending']['feedback']), and that list is not empty.
C26_WriterGetsLatestFeedback ==
  [][ (writer_calls' = writer_calls + 1) =>
        IF writer_calls = 0
          THEN writer_input'.feedback = <<>>
          ELSE /\ "feedback" \in DOMAIN state.pending
               /\ writer_input'.feedback = state.pending["feedback"]
               /\ writer_input'.feedback # <<>>
    ]_vars

\* C26 witness: the writer has been invoked a second time, with the
\* two-item feedback list the validator had just returned.
C26_Witness ==
  /\ writer_calls = 2
  /\ validator_calls = 1
  /\ writer_input.feedback = <<"f2", "f1">>
  /\ state.pending["feedback"] = <<"f2", "f1">>

\* C29: a validation step (route_draft_to_validation,
\* route_revised_to_validation) changes no entry of state other than
\* 'pending'; a writer step (start_flow, revise_draft) changes no entry
\* other than 'iteration' and 'draft'.
C29_FieldIsolation ==
  [][ /\ ValidationStep =>
           \A k \in DOMAIN state \ {"pending"} : state'[k] = state[k]
      /\ WriterStep =>
           \A k \in DOMAIN state \ {"iteration", "draft"} :
              state'[k] = state[k]
    ]_vars

\* C29 witness: a revised draft has been validated: two writer steps and two
\* validation steps have run, iteration is 2 and both outputs are in place.
C29_Witness ==
  /\ writer_calls = 2
  /\ validator_calls = 2
  /\ state.iteration = 2
  /\ IsDict(state.draft)
  /\ IsDict(state.pending)
  /\ state.final_guide = None

\* ------------------------------------------------------------------------
\* Properties of TitleStyleGuideCrew.run and of the workflow context
\* ------------------------------------------------------------------------
\* C23: when run() returns, it returns None exactly when state's
\* final_guide is missing, None or empty; otherwise it returns a
\* Final_Title_Guide whose category, product_type and final_text are those
\* of state['final_guide'].
C23_RunReturnsFinalGuide ==
  (run_result # NotReturned) =>
    IF "final_guide" \notin DOMAIN state
         \/ state["final_guide"] = None
         \/ state["final_guide"] = EmptyDict
      THEN run_result = None
      ELSE /\ run_result # None
           /\ run_result.category = state["final_guide"].category
           /\ run_result.product_type = state["final_guide"].product_type
           /\ run_result.final_text = state["final_guide"].final_text

\* C23 witness: run() has returned the guide of a real flow whose second
\* draft was accepted with the validator's rewritten text.
C23_Witness ==
  /\ run_result # NotReturned
  /\ run_result # None
  /\ "on_validated" \in executed
  /\ state.iteration = 2
  /\ run_result.final_text = "p1"
  /\ state.final_guide.final_text = "p1"

\* C30: the resolved context does not change during a run: no step changes
\* state['category'], state['product_type'], state['guidelines'] or
\* state['max_iterations'] of a TitleStyleFlow; and StyleGuideCrew.inputs
\* changes only when capture_inputs assigns it the request (a new
\* StyleGuideCrew starting with {}), never in a task, in store_final_guide
\* or on return.
C30_ContextImmutable ==
  [][ /\ \A k \in DOMAIN state \cap {"category", "product_type",
                                      "guidelines", "max_iterations"} :
           k \in DOMAIN state' /\ state'[k] = state[k]
      /\ (inputs' # inputs) =>
           \/ phase = "built" /\ inputs' = request
           \/ phase = "none" /\ phase' = "built" /\ inputs' = EmptyDict
    ]_vars

\* C30 witness: the validator named another category, the final guide
\* carries it, and state['category'] is still the one the flow was built
\* with.
C30_Witness ==
  /\ status = "done"
  /\ "on_validated" \in executed
  /\ state.category = "Fashion"
  /\ state.final_guide.category = "Toys"
  /\ state.guidelines = "g1"

\* ------------------------------------------------------------------------
\* Properties of MockTitleStyleFlow
\* ------------------------------------------------------------------------
\* both kickoffs have ended, by returning or by an exception
BothEnded ==
  /\ mock # None
  /\ status \in {"done", "failed"}
  /\ mock.status \in {"done", "failed"}

\* C24: with the same agents and the same max_iterations (at least 1), the
\* mock's kickoff ends as the flow's does: both return or both fail, with
\* the same iteration, the same numbers of writer and validator
\* invocations and the same final_guide.
C24_MockMatchesFlow ==
  (BothEnded /\ state.max_iterations >= 1) =>
    /\ mock.status = status
    /\ mock.state.iteration = state.iteration
    /\ mock.writer_calls = writer_calls
    /\ mock.validator_calls = validator_calls
    /\ mock.state.final_guide = state.final_guide

\* ------------------------------------------------------------------------
\* Properties of two runs at the same time
\* ------------------------------------------------------------------------
\* the attributes p are those of the run of client r: its flow state names
\* r's category and its crew's inputs are r's request
OwnContext(p, r) ==
  /\ p.state # None => p.state.category = ClientCategories[r]
  /\ p.request # None => p.request.category = ClientCategories[r]
  /\ p.inputs \in {EmptyDict, p.request}
  /\ p.phase \in {"running", "storing", "stored", "store_raised",
                  "store_type_error", "failed"}
       => p.inputs = p.request

\* C21: two runs with different categories executing at the same time are
\* independent under every interleaving of their steps: a step of one run
\* leaves every attribute of the other run as it was, a run that resumes
\* finds its state (iteration, draft, pending, final_guide; inputs) exactly
\* as its own last step left it, and so each run goes through the states it
\* goes through alone; at every moment each run's flow state and inputs
\* are its own request's.
C21_RunsIndependent ==
  [][ /\ running' = running => other' = other
      /\ running' # running => (other' = Private /\ Private' = other)
      /\ other' # None =>
           (OwnContext(Private, running)' /\ OwnContext(other, 3 - running)')
    ]_vars

\* two flows have ended differently, each with its own category's guide:
\* one after a revision, the other without
C21_Witness ==
  /\ other # None
  /\ status = "done"
  /\ other.status = "done"
  /\ state.final_guide # None
  /\ other.state.final_guide # None
  /\ state.final_guide.category # other.state.final_guide.category
  /\ state.iteration = 2
  /\ other.state.iteration = 1

\* the rows of the table that a run has added: those after the rows the
\* run found that carry its request's category
Persisted(p) ==
  SelectSeq(SubSeq(published_style_guides, p.rows_before + 1,
                   Len(published_style_guides)),
            LAMBDA row : row.category = p.request.category)

\* the run's store_final_guide has been left, by return or by exception
StoreLeft(p) ==
  /\ p.phase \in {"stored", "store_raised", "store_type_error"}
  /\ Len(p.task_outputs) = Len(TaskOrder)

\* C22: when two runs execute store_final_guide at the same time on the
\* same database, each snippet of each run is in the table exactly once
\* when the run's store_final_guide is left, whatever the interleaving.
C22_EachSnippetPersistedOnce ==
  other # None =>
    \A p \in {Private, other} :
      StoreLeft(p) =>
        Persisted(p) =
          Snippets(FinalData(p.task_outputs[Len(p.task_outputs)]),
                   p.request.category, p.request.product_type)

\* ------------------------------------------------------------------------
\* Properties of the handlers of TitleStyleFlow
\* ------------------------------------------------------------------------
\* on_validated is the method that finished last
ValidatedLast == trigger = "on_validated"

\* C31: the human-approval step always approves: once on_validated has run
\* it has returned "approved" and final_guide is a guide whose final_text is
\* the pending_text of the latest validation ("" if that validation named
\* none); no method ever returns "rejected".
C31_AlwaysApproves ==
  /\ arg # Str("rejected")
  /\ ValidatedLast =>
       /\ arg = Str("approved")
       /\ state.final_guide # None
       /\ state.final_guide.final_text
            = Get(state.pending, "pending_text", "")

\* on_validated has approved a guide whose text the validator rewrote
C31_Witness ==
  /\ ValidatedLast
  /\ arg = Str("approved")
  /\ state.final_guide.final_text = "p1"
  /\ state.pending.pending_text = "p1"

\* C33: state['iteration'] counts the writer invocations: it is 0 at first,
\* every step that invokes the writer raises it by exactly 1, no other step
\* changes it, and so after every step it is the number of writer
\* invocations started so far.
C33_IterationCountsWriterCalls ==
  [][ /\ writer_calls' \in {writer_calls, writer_calls + 1}
      /\ state'.iteration - state.iteration = writer_calls' - writer_calls
      /\ state'.iteration = writer_calls'
    ]_vars

\* two writer invocations, iteration 2, and a third validation made at the
\* cap without a writer invocation
C33_Witness ==
  /\ state.iteration = 2
  /\ writer_calls = 2
  /\ validator_calls = 3
  /\ "revise_draft" \in executed

\* C34: a terminal outcome is absorbing: final_guide is None until
\* on_validated or on_max_reached runs, it is assigned once, and once it is
\* assigned no method runs any more: no writer or validator invocation is
\* made and final_guide, draft, pending and iteration keep their values.
C34_TerminalIsAbsorbing ==
  [][ /\ (state.final_guide = None /\ state'.final_guide # None)
           => trigger' \in {"on_validated", "on_max_reached"}
      /\ state.final_guide # None =>
           /\ state' = state
           /\ trigger' = trigger
           /\ executed' = executed
           /\ writer_calls' = writer_calls
           /\ validator_calls' = validator_calls
           /\ writer_input' = writer_input
           /\ validator_input' = validator_input
    ]_vars

\* kickoff has returned after on_validated assigned final_guide to a run
\* that had made two writer invocations
C34_Witness ==
  /\ state.final_guide # None
  /\ status = "done"
  /\ writer_calls = 2
  /\ state.draft # None
  /\ state.iteration = 2

\* revise_draft has refused to revise because the cap was reached: only then
\* is a validation made that no writer invocation preceded
RefusedAtCap ==
  /\ "revise_draft" \in executed
  /\ state.iteration >= state.max_iterations
  /\ validator_calls > writer_calls

\* C35: the finalisation handlers are set off by what the flow emits: a run
\* in which on_validated has returned "approved" has executed on_approved by
\* the time kickoff returns, a run in which revise_draft has refused at the
\* cap has executed on_max_reached by then, and neither handler runs before
\* that.
C35_FinalisationHandlersRun ==
  /\ "on_approved" \in executed => "on_validated" \in executed
  /\ "on_max_reached" \in executed => RefusedAtCap
  /\ status = "done" =>
       /\ ("on_validated" \in executed /\ arg = Str("approved"))
            => "on_approved" \in executed
       /\ RefusedAtCap => "on_max_reached" \in executed

\* ------------------------------------------------------------------------
\* Properties of MockTitleStyleFlow.kickoff
\* ------------------------------------------------------------------------
\* C37: MockTitleStyleFlow.kickoff respects the cap and the acceptance rule:
\* with max_iterations N >= 1 and any validator, once kickoff has been
\* left iteration is at most N, at most N writer invocations have been
\* made, and final_guide is set only if the latest validation carried no
\* feedback.
C37_MockRespectsCap ==
  (mock # None /\ mock.status # "new" /\ mock.state.max_iterations >= 1) =>
    /\ mock.state.iteration <= mock.state.max_iterations
    /\ mock.writer_calls <= mock.state.max_iterations
    /\ mock.state.final_guide # None => ~HasFeedback(mock.state.pending)

\* ------------------------------------------------------------------------
\* Properties of store_final_guide
\* ------------------------------------------------------------------------
\* the step is an execution of store_final_guide
StoreStep == phase = "running" /\ phase' \notin {"running", "failed"}

\* the rows the step adds to the table
AddedRows ==
  SubSeq(published_style_guides', Len(published_style_guides) + 1,
         Len(published_style_guides'))

\* C32: store_final_guide is safe on unusable output: when the raw text of
\* the output is not a JSON object no row is inserted, a row is inserted
\* only for a guide key the parsed final data holds, and whatever the
\* output, the function is not left by an error of its own and the output
\* it hands back is the one it was given.
C32_StoreSafeOnUnusableOutput ==
  [][ StoreStep =>
        LET output == task_outputs[Len(task_outputs)]
            final_data == FinalData(output)
        IN /\ (output.raw.kind # "json" \/ ~Iterable(final_data))
                => AddedRows = <<>>
           /\ \A n \in DOMAIN AddedRows :
                AddedRows[n].field_name \in DOMAIN final_data
           /\ phase' # "store_type_error"
           /\ task_outputs' = task_outputs
    ]_vars

\* the snippets present in the run's final data
AllSnippets ==
  Snippets(FinalData(task_outputs[Len(task_outputs)]),
           Get(inputs, "category", "Unspecified"),
           Get(inputs, "product_type", "Unspecified"))

\* C36: the snippets of a run are persisted atomically: the inserts are made
\* in one transaction committed once at the end, so while store_final_guide
\* executes none of the run's snippets is in the table, after it returned
\* all of them are, and after it was left by an exception (of an INSERT, of
\* the commit) none is.
C36_SnippetsPersistedAtomically ==
  (AllTasksComplete
     /\ phase \in {"storing", "stored", "store_raised", "store_type_error"}) =>
    /\ NewRows \in {<<>>, AllSnippets}
    /\ phase = "stored" => NewRows = AllSnippets
    /\ phase # "stored" => NewRows = <<>>

\* the third INSERT of a run raised after two had been executed, and none
\* of the run's three snippets is in the table
C36_Witness ==
  /\ phase = "store_raised"
  /\ txn # None
  /\ txn.next = 3
  /\ Len(txn.rows) = 2
  /\ Len(AllSnippets) = 3
  /\ NewRows = <<>>

====
